---- MODULE Spec2Model ----
(***************************************************************************)
(* Booking lifecycle and room availability of the hotel-management backend *)
(* (app/graphql/mutations/booking_mutations.py and the room status writes  *)
(* of room_mutations.py), over the document store set up in                *)
(* app/db/mongodb.py.                                                      *)
(*                                                                         *)
(* Dates are whole days 1..MaxDate.  Amounts are integers; every           *)
(* price_per_night is a multiple of 10, so the 10% tax (x * 0.1) is exact. *)
(* A booking's _id is its position in the bookings collection.             *)
(***************************************************************************)
EXTENDS Integers, Sequences, FiniteSets, TLC

VARIABLES rooms, bookings, tasks, hotels, clock, result, pc, loc

vars == <<rooms, bookings, tasks, hotels, clock, result, pc, loc>>

(***************************************************************************)
(* Bounds                                                                  *)
(***************************************************************************)
MaxDate == 4
MaxDay == 2
MaxBookings == 2
MaxClock == 1
MaxTasks == 1
MaxCharges == 1
MaxPayments == 1
MaxPaymentList == 2
MaxRooms == 2
MaxDeletes == 1

\* dates of the lifecycle specification, and of the small specifications
Dates == 1..MaxDate
Days == 1..MaxDay
HotelIds == {"h1", "h2"}
RoomIds == {1}
\* requests <<hotel_id, room_id, number_of_guests>>: the room of hotel h1
\* with 2 guests, and one fault each (other hotel, unknown room, 3 guests)
CreateRequests == {<<"h1", 1, 2>>, <<"h2", 1, 2>>, <<"h1", 2, 2>>, <<"h1", 1, 3>>}
None == "None"
Notes == {None, "n"}
ChargeAmounts == {15}
PaymentAmounts == {50, 110}
PaymentInputs == {0, 50, 60}
Prices == {100, 200}
RoomNumbers == {1, 2}
Floors == {1, 2}
Procs == {1, 2}

(***************************************************************************)
(* Enumerations                                                            *)
(***************************************************************************)
RoomStatus ==
    {"available", "occupied", "maintenance", "cleaning", "blocked", "out_of_order"}

BookingStatus ==
    {"pending", "confirmed", "checked_in", "checked_out", "cancelled", "no_show"}

PaymentStatus == {"pending", "partial", "paid", "refunded", "failed"}

\* $jsonSchema validator of the bookings collection: booking_status enum
bookings_validator(doc) ==
    /\ doc.booking_status \in
           {"pending", "confirmed", "checked_in", "checked_out", "cancelled"}
    /\ doc.payment_status \in {"pending", "partial", "paid", "refunded"}

\* a bookings collection without the unique index on booking_number
booking_number_unique_absent(bs, doc) == TRUE

\* unique index on booking_number
booking_number_unique(bs, doc) ==
    \A i \in 1..Len(bs) : bs[i].booking_number # doc.booking_number

(***************************************************************************)
(* Error messages raised by the handlers, and the error kind each stands   *)
(* for.                                                                    *)
(***************************************************************************)
ErrorKind(msg) ==
    CASE msg = "Room not found in specified hotel" -> "NotFound"
      [] msg = "Booking not found" -> "NotFound"
      [] msg = "Room is not available for booking" -> "InvalidState"
      [] msg = "Room capacity exceeded" -> "Validation"
      [] msg = "Room is already booked for these dates" -> "Conflict"
      [] msg = "Only confirmed bookings can be checked in" -> "InvalidTransition"
      [] msg = "Only checked-in bookings can be checked out" -> "InvalidTransition"
      [] msg = "Cannot cancel checked-in or checked-out bookings" -> "InvalidTransition"
      [] msg = "Active booking not found" -> "InvalidState"
      [] msg = "Can only extend confirmed or checked-in bookings" -> "InvalidState"
      [] msg = "New check-out date must be after current check-out date" -> "Validation"
      [] msg = "Room is not available for the requested extension period" -> "Conflict"
      [] msg = "Room not found" -> "NotFound"
      [] msg = "Hotel not found" -> "NotFound"
      [] msg = "Task not found" -> "NotFound"
      [] msg = "Room number already exists in this hotel" -> "Conflict"
      [] msg = "Floor number exceeds hotel's floor count" -> "Validation"
      [] msg = "Can only occupy available rooms" -> "InvalidState"
      [] msg = "Cannot delete room with active bookings" -> "InvalidState"
      [] msg = "Cannot set occupied room to available directly" -> "InvalidState"
      [] msg = "E11000 duplicate key" -> "StoreError"
      [] msg = "Document failed validation" -> "StoreError"
      [] msg = "housekeeping_tasks.insert_one failed" -> "StoreError"
      [] OTHER -> "none"

Ok == "ok"

(***************************************************************************)
(* Initial state: the rooms as create_room leaves them, no bookings.       *)
(***************************************************************************)
NewRoom(h, number, price, occ) ==
    [hotel_id |-> h, room_number |-> number, status |-> "available",
     price_per_night |-> price, max_occupancy |-> occ, is_active |-> TRUE]

\* the locals of a handler between its store operations
Idle ==
    [h |-> None, r |-> 0, ci |-> 0, co |-> 0, g |-> 0,
     price |-> 0, number |-> 0, err |-> "ok", id |-> 0]

Init ==
    /\ rooms = [r \in RoomIds |-> NewRoom("h1", r, 100, 2)]
    /\ bookings = <<>>
    /\ tasks = <<>>
    /\ hotels = [h \in HotelIds |->
                     [room_count |-> Cardinality({r \in RoomIds : h = "h1"}),
                      floor_count |-> 1]]
    /\ clock = 0
    /\ result = [op |-> "init", err |-> Ok, id |-> 0]
    /\ pc = [p \in Procs |-> "idle"]
    /\ loc = [p \in Procs |-> Idle]

(***************************************************************************)
(* The clock of datetime.utcnow(), in seconds.                             *)
(***************************************************************************)
Tick ==
    /\ clock < MaxClock
    /\ clock' = clock + 1
    /\ UNCHANGED <<hotels, rooms, bookings, tasks, result, pc, loc>>

(***************************************************************************)
(* create_booking                                                          *)
(***************************************************************************)
\* db.rooms.find_one({"_id": room_id, "hotel_id": hotel_id})
find_room(rs, h, r) == r \in DOMAIN rs /\ rs[r].hotel_id = h

\* the "existing bookings in date range" filter of create_booking
existing_booking(bs, r, ci, co) ==
    \E i \in 1..Len(bs) :
        /\ bs[i].room_id = r
        /\ bs[i].booking_status \in {"confirmed", "checked_in"}
        /\ \/ (bs[i].check_in_date < co /\ bs[i].check_in_date >= ci)
           \/ (bs[i].check_out_date > ci /\ bs[i].check_out_date <= co)

\* 10% tax
tax_of(amount) == amount \div 10

\* booking_number = "BK" + utcnow to the second
booking_number_at(t) == t

\* booking_dict counting the day of departure as a night
booking_dict_inclusive_nights(price_per_night, h, r, ci, co, number) ==
    LET nights == co - ci + 1
        base_amount == price_per_night * nights
        tax_amount == tax_of(base_amount)
    IN [hotel_id |-> h, room_id |-> r, booking_number |-> number,
        check_in_date |-> ci, check_out_date |-> co,
        base_amount |-> base_amount, tax_amount |-> tax_amount,
        total_amount |-> base_amount + tax_amount,
        booking_status |-> "confirmed", payment_status |-> "pending",
        payments |-> <<>>, room_charges |-> <<>>,
        cancellation_reason |-> None]

booking_dict(price_per_night, h, r, ci, co, number) ==
    LET nights == co - ci
        base_amount == price_per_night * nights
        tax_amount == tax_of(base_amount)
    IN [hotel_id |-> h, room_id |-> r, booking_number |-> number,
        check_in_date |-> ci, check_out_date |-> co,
        base_amount |-> base_amount, tax_amount |-> tax_amount,
        total_amount |-> base_amount + tax_amount,
        booking_status |-> "confirmed", payment_status |-> "pending",
        payments |-> <<>>, room_charges |-> <<>>,
        cancellation_reason |-> None]

\* room_check rejecting occupied rooms only
room_check_occupied_only(rs, h, r, g) ==
    IF ~find_room(rs, h, r) THEN "Room not found in specified hotel"
    ELSE IF rs[r].status \in {"occupied", "OCCUPIED"}
        THEN "Room is not available for booking"
    ELSE IF g > rs[r].max_occupancy THEN "Room capacity exceeded"
    ELSE Ok

\* rooms.find_one, then the status and capacity checks on the room as read
room_check(rs, h, r, g) ==
    IF ~find_room(rs, h, r) THEN "Room not found in specified hotel"
    ELSE IF rs[r].status # "available" THEN "Room is not available for booking"
    ELSE IF g > rs[r].max_occupancy THEN "Room capacity exceeded"
    ELSE Ok

\* the checks of create_booking, in order; Ok when all pass
create_booking_check(rs, bs, h, r, ci, co, g) ==
    IF room_check(rs, h, r, g) # Ok THEN room_check(rs, h, r, g)
    ELSE IF existing_booking(bs, r, ci, co)
        THEN "Room is already booked for these dates"
    ELSE Ok

\* db.bookings.insert_one: validator and unique index
insert_error(bs, doc) ==
    IF ~bookings_validator(doc) THEN "Document failed validation"
    ELSE IF ~booking_number_unique(bs, doc) THEN "E11000 duplicate key"
    ELSE Ok

set_room_status(rs, r, s) == [rs EXCEPT ![r].status = s]

create_booking(h, r, ci, co, g) ==
    LET chk == create_booking_check(rooms, bookings, h, r, ci, co, g) IN
    /\ IF chk # Ok
       THEN /\ result' = [op |-> "create_booking", err |-> chk, id |-> 0]
            /\ UNCHANGED <<rooms, bookings>>
       ELSE LET doc == booking_dict(rooms[r].price_per_night, h, r, ci, co,
                                   booking_number_at(clock))
                ins == insert_error(bookings, doc)
            IN IF ins # Ok
               THEN /\ result' = [op |-> "create_booking", err |-> ins, id |-> 0]
                    /\ UNCHANGED <<rooms, bookings>>
               ELSE /\ bookings' = Append(bookings, doc)
                    /\ rooms' = set_room_status(rooms, r, "OCCUPIED")
                    /\ result' = [op |-> "create_booking", err |-> Ok,
                                  id |-> Len(bookings) + 1]
    /\ UNCHANGED <<hotels, tasks, clock, pc, loc>>

(***************************************************************************)
(* _find_booking: a 24-character hexadecimal booking_id is looked up as    *)
(* _id, anything else as booking_number.  A key is the string's shape and  *)
(* the identifier or number it spells.                                     *)
(***************************************************************************)
BookingKeys ==
    [kind : {"oid"}, v : 0..MaxBookings] \cup [kind : {"bk"}, v : 0..MaxClock]

\* find_booking that looks a key up as _id only
find_booking_id_only(bs, key) ==
    IF key.kind = "oid"
    THEN IF key.v \in 1..Len(bs) THEN key.v ELSE 0
    ELSE 0

find_booking(bs, key) ==
    IF key.kind = "oid"
    THEN IF key.v \in 1..Len(bs) THEN key.v ELSE 0
    ELSE IF \E i \in 1..Len(bs) : bs[i].booking_number = key.v
         THEN CHOOSE i \in 1..Len(bs) : bs[i].booking_number = key.v
         ELSE 0

(***************************************************************************)
(* The booking_id strings behind the keys, character by character:         *)
(* str(ObjectId) is 24 hexadecimal characters, a booking number is "BK"    *)
(* and the 14 digits of %Y%m%d%H%M%S.                                      *)
(***************************************************************************)
HexChars ==
    {"0", "1", "2", "3", "4", "5", "6", "7", "8", "9",
     "a", "b", "c", "d", "e", "f", "A", "B", "C", "D", "E", "F"}

HexDigit(n) ==
    <<"0", "1", "2", "3", "4", "5", "6", "7", "8", "9",
      "a", "b", "c", "d", "e", "f">>[(n % 16) + 1]

\* n written on k characters in base b
RECURSIVE Numeral(_, _, _)
Numeral(n, k, b) ==
    IF k = 0 THEN <<>>
    ELSE Append(Numeral(n \div b, k - 1, b), HexDigit(n % b))

\* the strings of the identifiers and of the booking numbers of the model
ObjectIdStrings == [i \in 0..(MaxBookings + 1) |-> Numeral(i, 24, 16)]

BookingNumberStrings ==
    [t \in 0..(MaxClock + 1) |-> <<"B", "K">> \o Numeral(t, 14, 10)]

ObjectIdString(i) == ObjectIdStrings[i]

BookingNumberString(t) == BookingNumberStrings[t]

KeyString(key) ==
    IF key.kind = "oid" THEN ObjectIdString(key.v)
    ELSE BookingNumberString(key.v)

\* len(booking_id) == 24 and all(c in '0123456789abcdefABCDEF' ...)
is_object_id(s) == Len(s) = 24 /\ \A k \in 1..Len(s) : s[k] \in HexChars

\* _find_booking on the string
find_booking_string(bs, s) ==
    IF is_object_id(s)
    THEN IF \E i \in 1..Len(bs) : ObjectIdString(i) = s
         THEN CHOOSE i \in 1..Len(bs) : ObjectIdString(i) = s
         ELSE 0
    ELSE IF \E i \in 1..Len(bs) : BookingNumberString(bs[i].booking_number) = s
         THEN CHOOSE i \in 1..Len(bs) :
                  BookingNumberString(bs[i].booking_number) = s
         ELSE 0

(***************************************************************************)
(* update_booking_status                                                   *)
(***************************************************************************)
\* status_guard with the check-out guard left out
status_guard_checkout_unguarded(current, status) ==
    IF status = "checked_in" /\ current # "confirmed"
        THEN "Only confirmed bookings can be checked in"
    ELSE IF status = "cancelled" /\ current \in {"checked_in", "checked_out"}
        THEN "Cannot cancel checked-in or checked-out bookings"
    ELSE Ok

\* status_guard refusing the cancellation of checked-in bookings only
status_guard_cancel_after_checkout(current, status) ==
    IF status = "checked_in" /\ current # "confirmed"
        THEN "Only confirmed bookings can be checked in"
    ELSE IF status = "checked_out" /\ current # "checked_in"
        THEN "Only checked-in bookings can be checked out"
    ELSE IF status = "cancelled" /\ current = "checked_in"
        THEN "Cannot cancel checked-in or checked-out bookings"
    ELSE Ok

\* the status-specific guard; Ok when the handler goes on
status_guard(current, status) ==
    IF status = "checked_in" /\ current # "confirmed"
        THEN "Only confirmed bookings can be checked in"
    ELSE IF status = "checked_out" /\ current # "checked_in"
        THEN "Only checked-in bookings can be checked out"
    ELSE IF status = "cancelled" /\ current \in {"checked_in", "checked_out"}
        THEN "Cannot cancel checked-in or checked-out bookings"
    ELSE Ok

\* the room status written for the target status, None when none is written
room_status_for(status) ==
    CASE status = "checked_in" -> "occupied"
      [] status = "checked_out" -> "cleaning"
      [] status = "cancelled" -> "available"
      [] OTHER -> None

\* housekeeping_task with the default priority of the housekeeping mutations
housekeeping_task_medium_priority(b) ==
    [hotel_id |-> b.hotel_id, room_id |-> b.room_id, task_type |-> "cleaning",
     priority |-> "medium", status |-> "pending"]

housekeeping_task(b) ==
    [hotel_id |-> b.hotel_id, room_id |-> b.room_id, task_type |-> "cleaning",
     priority |-> "high", status |-> "pending"]

\* status_update that does not store the cancellation reason
status_update_without_reason(b, status, notes) ==
    [b EXCEPT !.booking_status = status]

\* the $set applied to the booking document
status_update(b, status, notes) ==
    IF status = "cancelled"
    THEN [b EXCEPT !.booking_status = status, !.cancellation_reason = notes]
    ELSE [b EXCEPT !.booking_status = status]

update_booking_status(key, status, notes) ==
    LET i == find_booking(bookings, key) IN
    /\ IF i = 0
       THEN /\ result' = [op |-> "update_booking_status",
                          err |-> "Booking not found", id |-> 0]
            /\ UNCHANGED <<rooms, bookings, tasks>>
       ELSE LET b == bookings[i]
                g == status_guard(b.booking_status, status)
                doc == status_update(b, status, notes)
            IN IF g # Ok
               THEN /\ result' = [op |-> "update_booking_status", err |-> g, id |-> i]
                    /\ UNCHANGED <<rooms, bookings, tasks>>
               ELSE \* the room write and the task insert come before the
                    \* booking write
                    /\ rooms' = IF room_status_for(status) = None THEN rooms
                                ELSE set_room_status(rooms, b.room_id,
                                                     room_status_for(status))
                    /\ tasks' = IF status = "checked_out"
                                THEN Append(tasks, housekeeping_task(b))
                                ELSE tasks
                    /\ IF bookings_validator(doc)
                       THEN /\ bookings' = [bookings EXCEPT ![i] = doc]
                            /\ result' = [op |-> "update_booking_status",
                                          err |-> Ok, id |-> i]
                       ELSE /\ bookings' = bookings
                            /\ result' = [op |-> "update_booking_status",
                                          err |-> "Document failed validation",
                                          id |-> i]
    /\ UNCHANGED <<hotels, clock, pc, loc>>

\* update_booking_status to checked_out when housekeeping_tasks.insert_one
\* raises: the room write is done, the exception leaves the handler before
\* the booking write
update_booking_status_task_failure(key, notes) ==
    LET i == find_booking(bookings, key) IN
    /\ i # 0
    /\ status_guard(bookings[i].booking_status, "checked_out") = Ok
    /\ rooms' = set_room_status(rooms, bookings[i].room_id,
                                room_status_for("checked_out"))
    /\ result' = [op |-> "update_booking_status",
                  err |-> "housekeeping_tasks.insert_one failed", id |-> i]
    /\ UNCHANGED <<hotels, bookings, tasks, clock, pc, loc>>

(***************************************************************************)
(* extend_booking                                                          *)
(***************************************************************************)
\* the "room availability for extension period" filter
conflicting_booking(bs, i, new_co) ==
    \E j \in 1..Len(bs) :
        /\ bs[j].room_id = bs[i].room_id
        /\ j # i
        /\ bs[j].booking_status \in {"confirmed", "checked_in"}
        /\ bs[j].check_in_date < new_co
        /\ bs[j].check_out_date > bs[i].check_out_date

\* extend_check accepting the current check-out date
extend_check_same_date(bs, i, new_co) ==
    IF i = 0 THEN "Booking not found"
    ELSE IF bs[i].booking_status \notin {"confirmed", "checked_in"}
        THEN "Can only extend confirmed or checked-in bookings"
    ELSE IF new_co < bs[i].check_out_date
        THEN "New check-out date must be after current check-out date"
    ELSE IF conflicting_booking(bs, i, new_co)
        THEN "Room is not available for the requested extension period"
    ELSE Ok

extend_check(bs, i, new_co) ==
    IF i = 0 THEN "Booking not found"
    ELSE IF bs[i].booking_status \notin {"confirmed", "checked_in"}
        THEN "Can only extend confirmed or checked-in bookings"
    ELSE IF new_co <= bs[i].check_out_date
        THEN "New check-out date must be after current check-out date"
    ELSE IF conflicting_booking(bs, i, new_co)
        THEN "Room is not available for the requested extension period"
    ELSE Ok

\* extend_update with the additional tax left out of total_amount
extend_update_without_tax(b, price, new_co) ==
    LET additional_nights == new_co - b.check_out_date
        additional_amount == price * additional_nights
        additional_tax == tax_of(additional_amount)
    IN [check_out_date |-> new_co,
        base_amount |-> b.base_amount + additional_amount,
        tax_amount |-> b.tax_amount + additional_tax,
        total_amount |-> b.total_amount + additional_amount]

\* extend_update charging one night whatever the length of the extension
extend_update_one_night(b, price, new_co) ==
    LET additional_amount == price
        additional_tax == tax_of(additional_amount)
        total_additional == additional_amount + additional_tax
    IN [check_out_date |-> new_co,
        base_amount |-> b.base_amount + additional_amount,
        tax_amount |-> b.tax_amount + additional_tax,
        total_amount |-> b.total_amount + total_additional]

\* the $set of extend_booking, computed from the booking as read
extend_update(b, price, new_co) ==
    LET additional_nights == new_co - b.check_out_date
        additional_amount == price * additional_nights
        additional_tax == tax_of(additional_amount)
        total_additional == additional_amount + additional_tax
    IN [check_out_date |-> new_co,
        base_amount |-> b.base_amount + additional_amount,
        tax_amount |-> b.tax_amount + additional_tax,
        total_amount |-> b.total_amount + total_additional]

apply_extend(b, u) ==
    [b EXCEPT !.check_out_date = u.check_out_date,
              !.base_amount = u.base_amount,
              !.tax_amount = u.tax_amount,
              !.total_amount = u.total_amount]

extend_booking(key, new_co) ==
    LET i == find_booking(bookings, key)
        chk == extend_check(bookings, i, new_co)
    IN
    /\ IF chk # Ok
       THEN /\ result' = [op |-> "extend_booking", err |-> chk, id |-> i]
            /\ UNCHANGED bookings
       ELSE LET b == bookings[i]
                u == extend_update(b, rooms[b.room_id].price_per_night, new_co)
            IN /\ bookings' = [bookings EXCEPT ![i] = apply_extend(b, u)]
               /\ result' = [op |-> "extend_booking", err |-> Ok, id |-> i]
    /\ UNCHANGED <<hotels, rooms, tasks, clock, pc, loc>>

(***************************************************************************)
(* add_payment and add_room_charge                                         *)
(***************************************************************************)
RECURSIVE sum_amounts(_)
sum_amounts(xs) ==
    IF xs = <<>> THEN 0 ELSE Head(xs).amount + sum_amounts(Tail(xs))

\* payment_status_for that takes a payment of exactly the total as partial
payment_status_for_strict(total_paid, total_amount) ==
    IF total_paid > total_amount THEN "paid"
    ELSE IF total_paid > 0 THEN "partial"
    ELSE "pending"

payment_status_for(total_paid, total_amount) ==
    IF total_paid >= total_amount THEN "paid"
    ELSE IF total_paid > 0 THEN "partial"
    ELSE "pending"

\* add_payment that takes the payment off total_amount
add_payment_reducing_total(key, amount) ==
    LET i == find_booking(bookings, key) IN
    /\ IF i = 0
       THEN /\ result' = [op |-> "add_payment", err |-> "Booking not found", id |-> 0]
            /\ UNCHANGED bookings
       ELSE LET b == bookings[i]
                payment == [amount |-> amount, status |-> "completed"]
                total_paid == sum_amounts(b.payments) + amount
                doc == [b EXCEPT !.payments = Append(@, payment),
                                 !.total_amount = @ - amount,
                                 !.payment_status =
                                     payment_status_for(total_paid, b.total_amount)]
            IN /\ bookings' = [bookings EXCEPT ![i] = doc]
               /\ result' = [op |-> "add_payment", err |-> Ok, id |-> i]
    /\ UNCHANGED <<hotels, rooms, tasks, clock, pc, loc>>

add_payment(key, amount) ==
    LET i == find_booking(bookings, key) IN
    /\ IF i = 0
       THEN /\ result' = [op |-> "add_payment", err |-> "Booking not found", id |-> 0]
            /\ UNCHANGED bookings
       ELSE LET b == bookings[i]
                payment == [amount |-> amount, status |-> "completed"]
                total_paid == sum_amounts(b.payments) + amount
                doc == [b EXCEPT !.payments = Append(@, payment),
                                 !.payment_status =
                                     payment_status_for(total_paid, b.total_amount)]
            IN /\ bookings' = [bookings EXCEPT ![i] = doc]
               /\ result' = [op |-> "add_payment", err |-> Ok, id |-> i]
    /\ UNCHANGED <<hotels, rooms, tasks, clock, pc, loc>>

\* add_room_charge without the check of the booking's status
add_room_charge_any_status(key, amount) ==
    LET i == find_booking(bookings, key) IN
    /\ IF i = 0
       THEN /\ result' = [op |-> "add_room_charge",
                          err |-> "Active booking not found", id |-> i]
            /\ UNCHANGED bookings
       ELSE LET b == bookings[i]
                charge == [amount |-> amount]
                doc == [b EXCEPT !.room_charges = Append(@, charge),
                                 !.total_amount = @ + amount]
            IN /\ bookings' = [bookings EXCEPT ![i] = doc]
               /\ result' = [op |-> "add_room_charge", err |-> Ok, id |-> i]
    /\ UNCHANGED <<hotels, rooms, tasks, clock, pc, loc>>

add_room_charge(key, amount) ==
    LET i == find_booking(bookings, key) IN
    /\ IF i = 0 \/ (i # 0 /\ bookings[i].booking_status # "checked_in")
       THEN /\ result' = [op |-> "add_room_charge",
                          err |-> "Active booking not found", id |-> i]
            /\ UNCHANGED bookings
       ELSE LET b == bookings[i]
                charge == [amount |-> amount]
                doc == [b EXCEPT !.room_charges = Append(@, charge),
                                 !.total_amount = @ + amount]
            IN /\ bookings' = [bookings EXCEPT ![i] = doc]
               /\ result' = [op |-> "add_room_charge", err |-> Ok, id |-> i]
    /\ UNCHANGED <<hotels, rooms, tasks, clock, pc, loc>>

(***************************************************************************)
(* update_room_status (room management)                                    *)
(***************************************************************************)
room_status_guard(current, status) ==
    IF status = "occupied" /\ current # "available"
        THEN "Can only occupy available rooms"
    ELSE IF status = "available" /\ current = "occupied"
        THEN "Cannot set occupied room to available directly"
    ELSE Ok

update_room_status(r, status) ==
    /\ IF r \notin DOMAIN rooms
       THEN /\ result' = [op |-> "update_room_status", err |-> "Room not found",
                          id |-> 0]
            /\ UNCHANGED rooms
       ELSE LET g == room_status_guard(rooms[r].status, status) IN
            IF g # Ok
            THEN /\ result' = [op |-> "update_room_status", err |-> g, id |-> r]
                 /\ UNCHANGED rooms
            ELSE /\ rooms' = set_room_status(rooms, r, status)
                 /\ result' = [op |-> "update_room_status", err |-> Ok, id |-> r]
    /\ UNCHANGED <<hotels, bookings, tasks, clock, pc, loc>>

(***************************************************************************)
(* Housekeeping: create_housekeeping_task and update_task_status.  A task  *)
(* _id is its position in tasks.                                           *)
(***************************************************************************)
TaskStatus ==
    {"pending", "assigned", "in_progress", "completed", "verified", "cancelled"}

TaskType ==
    {"cleaning", "turndown", "maintenance", "deep_cleaning", "inspection",
     "special_request"}

create_housekeeping_task(h, r, task_type, priority) ==
    /\ IF r \notin DOMAIN rooms \/ rooms[r].hotel_id # h
       THEN /\ result' = [op |-> "create_housekeeping_task",
                          err |-> "Room not found in specified hotel", id |-> 0]
            /\ UNCHANGED <<rooms, tasks>>
       ELSE /\ tasks' = Append(tasks, [hotel_id |-> h, room_id |-> r,
                                       task_type |-> task_type,
                                       priority |-> priority,
                                       status |-> "pending"])
            /\ rooms' = IF rooms[r].status \notin {"occupied", "out_of_order"}
                        THEN set_room_status(rooms, r, "cleaning")
                        ELSE rooms
            /\ result' = [op |-> "create_housekeeping_task", err |-> Ok,
                          id |-> Len(tasks) + 1]
    /\ UNCHANGED <<hotels, bookings, clock, pc, loc>>

update_task_status(t, status) ==
    /\ IF t \notin DOMAIN tasks
       THEN /\ result' = [op |-> "update_task_status", err |-> "Task not found",
                          id |-> 0]
            /\ UNCHANGED <<rooms, tasks>>
       ELSE \* the room write comes before the task write
            /\ rooms' = IF /\ status = "completed"
                           /\ tasks[t].task_type = "cleaning"
                           /\ tasks[t].room_id \in DOMAIN rooms
                        THEN set_room_status(rooms, tasks[t].room_id, "available")
                        ELSE rooms
            /\ tasks' = [tasks EXCEPT ![t].status = status]
            /\ result' = [op |-> "update_task_status", err |-> Ok, id |-> t]
    /\ UNCHANGED <<hotels, bookings, clock, pc, loc>>

(***************************************************************************)
(* create_room: the new room's _id is the next position of rooms           *)
(***************************************************************************)
create_room_check(hs, rs, h, number, floor) ==
    IF h \notin DOMAIN hs THEN "Hotel not found"
    ELSE IF \E r \in DOMAIN rs :
                rs[r].hotel_id = h /\ rs[r].room_number = number
        THEN "Room number already exists in this hotel"
    ELSE IF floor > hs[h].floor_count
        THEN "Floor number exceeds hotel's floor count"
    ELSE Ok

create_room(h, number, floor, price, occ) ==
    LET chk == create_room_check(hotels, rooms, h, number, floor)
        id == Len(rooms) + 1
    IN
    /\ IF chk # Ok
       THEN /\ result' = [op |-> "create_room", err |-> chk, id |-> 0]
            /\ UNCHANGED <<rooms, hotels>>
       ELSE /\ rooms' = Append(rooms, NewRoom(h, number, price, occ))
            /\ hotels' = [hotels EXCEPT ![h].room_count = @ + 1]
            /\ result' = [op |-> "create_room", err |-> Ok, id |-> id]
    /\ UNCHANGED <<bookings, tasks, clock, pc, loc>>

(***************************************************************************)
(* delete_room: a soft delete                                              *)
(***************************************************************************)
\* the "room has active bookings" filter: room_id and the field "status"
active_booking(bs, r) ==
    \E i \in 1..Len(bs) :
        /\ bs[i].room_id = r
        /\ "status" \in DOMAIN bs[i]
        /\ bs[i]["status"] \in {"confirmed", "checked_in"}

delete_room(r) ==
    /\ IF r \notin DOMAIN rooms
       THEN /\ result' = [op |-> "delete_room", err |-> "Room not found", id |-> 0]
            /\ UNCHANGED <<rooms, hotels>>
       ELSE IF active_booking(bookings, r)
       THEN /\ result' = [op |-> "delete_room",
                          err |-> "Cannot delete room with active bookings",
                          id |-> r]
            /\ UNCHANGED <<rooms, hotels>>
       ELSE /\ rooms' = [rooms EXCEPT ![r].is_active = FALSE,
                                      ![r].status = "out_of_order"]
            /\ hotels' = [hotels EXCEPT ![rooms[r].hotel_id].room_count = @ - 1]
            /\ result' = [op |-> "delete_room", err |-> Ok, id |-> r]
    /\ UNCHANGED <<bookings, tasks, clock, pc, loc>>

(***************************************************************************)
(* update_room: the fields given (not None) are written as they are; the   *)
(* model gives price_per_night and status                                  *)
(***************************************************************************)
update_room(r, price, status) ==
    /\ IF r \notin DOMAIN rooms
       THEN /\ result' = [op |-> "update_room", err |-> "Room not found", id |-> 0]
            /\ UNCHANGED rooms
       ELSE /\ rooms' = [rooms EXCEPT
                             ![r].price_per_night =
                                 IF price \in Int THEN price ELSE @,
                             ![r].status = IF status = None THEN @ ELSE status]
            /\ result' = [op |-> "update_room", err |-> Ok, id |-> r]
    /\ UNCHANGED <<hotels, bookings, tasks, clock, pc, loc>>

(***************************************************************************)
(* create_booking, one store operation at a time.  pc[p] names the store   *)
(* operation request p awaits next.                                        *)
(***************************************************************************)
cb_begin(p, h, r, ci, co, g) ==
    /\ pc[p] = "idle"
    /\ pc' = [pc EXCEPT ![p] = "find_room"]
    /\ loc' = [loc EXCEPT ![p] = [Idle EXCEPT !.h = h, !.r = r, !.ci = ci,
                                              !.co = co, !.g = g]]
    /\ UNCHANGED <<hotels, rooms, bookings, tasks, clock, result>>

cb_find_room(p) ==
    LET l == loc[p]
        chk == room_check(rooms, l.h, l.r, l.g)
    IN
    /\ pc[p] = "find_room"
    /\ IF chk # Ok
       THEN /\ pc' = [pc EXCEPT ![p] = "failed"]
            /\ loc' = [loc EXCEPT ![p].err = chk]
       ELSE /\ pc' = [pc EXCEPT ![p] = "find_existing"]
            /\ loc' = [loc EXCEPT ![p].price = rooms[l.r].price_per_night]
    /\ UNCHANGED <<hotels, rooms, bookings, tasks, clock, result>>

\* cb_find_existing issuing the room status write before the insert
cb_find_existing_room_first(p) ==
    LET l == loc[p] IN
    /\ pc[p] = "find_existing"
    /\ IF existing_booking(bookings, l.r, l.ci, l.co)
       THEN /\ pc' = [pc EXCEPT ![p] = "failed"]
            /\ loc' = [loc EXCEPT ![p].err = "Room is already booked for these dates"]
            /\ UNCHANGED rooms
       ELSE /\ pc' = [pc EXCEPT ![p] = "insert"]
            /\ loc' = [loc EXCEPT ![p].number = booking_number_at(clock)]
            /\ rooms' = set_room_status(rooms, l.r, "OCCUPIED")
    /\ UNCHANGED <<hotels, bookings, tasks, clock, result>>

\* bookings.find_one with the date filter; on no match the amounts and the
\* booking number are computed before the insert is issued
cb_find_existing(p) ==
    LET l == loc[p] IN
    /\ pc[p] = "find_existing"
    /\ IF existing_booking(bookings, l.r, l.ci, l.co)
       THEN /\ pc' = [pc EXCEPT ![p] = "failed"]
            /\ loc' = [loc EXCEPT ![p].err = "Room is already booked for these dates"]
       ELSE /\ pc' = [pc EXCEPT ![p] = "insert"]
            /\ loc' = [loc EXCEPT ![p].number = booking_number_at(clock)]
    /\ UNCHANGED <<hotels, rooms, bookings, tasks, clock, result>>

cb_insert(p) ==
    LET l == loc[p]
        doc == booking_dict(l.price, l.h, l.r, l.ci, l.co, l.number)
        ins == insert_error(bookings, doc)
    IN
    /\ pc[p] = "insert"
    /\ IF ins # Ok
       THEN /\ pc' = [pc EXCEPT ![p] = "failed"]
            /\ loc' = [loc EXCEPT ![p].err = ins]
            /\ UNCHANGED bookings
       ELSE /\ bookings' = Append(bookings, doc)
            /\ pc' = [pc EXCEPT ![p] = "update_room"]
            /\ loc' = [loc EXCEPT ![p].id = Len(bookings) + 1]
    /\ UNCHANGED <<hotels, rooms, tasks, clock, result>>

cb_update_room(p) ==
    /\ pc[p] = "update_room"
    /\ rooms' = set_room_status(rooms, loc[p].r, "OCCUPIED")
    /\ pc' = [pc EXCEPT ![p] = "done"]
    /\ UNCHANGED <<hotels, bookings, tasks, clock, result, loc>>

(***************************************************************************)
(* extend_booking, one store operation at a time.  loc[p].booking is the   *)
(* booking document as the request read it.                                *)
(***************************************************************************)
eb_begin(p, key, new_co) ==
    /\ pc[p] = "idle"
    /\ pc' = [pc EXCEPT ![p] = "eb_find_booking"]
    /\ loc' = [loc EXCEPT ![p] = [key |-> key, new_co |-> new_co, id |-> 0,
                                  booking |-> None, price |-> 0, err |-> Ok]]
    /\ UNCHANGED <<hotels, rooms, bookings, tasks, clock, result>>

\* _find_booking and the checks on the document read
eb_find_booking(p) ==
    LET l == loc[p]
        i == find_booking(bookings, l.key)
    IN
    /\ pc[p] = "eb_find_booking"
    /\ IF i = 0
       THEN /\ pc' = [pc EXCEPT ![p] = "failed"]
            /\ loc' = [loc EXCEPT ![p].err = "Booking not found"]
       ELSE IF bookings[i].booking_status \notin {"confirmed", "checked_in"}
       THEN /\ pc' = [pc EXCEPT ![p] = "failed"]
            /\ loc' = [loc EXCEPT ![p].err =
                           "Can only extend confirmed or checked-in bookings"]
       ELSE IF l.new_co <= bookings[i].check_out_date
       THEN /\ pc' = [pc EXCEPT ![p] = "failed"]
            /\ loc' = [loc EXCEPT ![p].err =
                           "New check-out date must be after current check-out date"]
       ELSE /\ pc' = [pc EXCEPT ![p] = "eb_find_conflicting"]
            /\ loc' = [loc EXCEPT ![p].id = i, ![p].booking = bookings[i]]
    /\ UNCHANGED <<hotels, rooms, bookings, tasks, clock, result>>

\* bookings.find_one with the extension filter, built from the document read
eb_find_conflicting(p) ==
    LET l == loc[p] IN
    /\ pc[p] = "eb_find_conflicting"
    /\ IF conflicting_booking([bookings EXCEPT ![l.id] = l.booking], l.id, l.new_co)
       THEN /\ pc' = [pc EXCEPT ![p] = "failed"]
            /\ loc' = [loc EXCEPT ![p].err =
                           "Room is not available for the requested extension period"]
       ELSE /\ pc' = [pc EXCEPT ![p] = "eb_find_room"]
            /\ loc' = loc
    /\ UNCHANGED <<hotels, rooms, bookings, tasks, clock, result>>

\* rooms.find_one for the price
eb_find_room(p) ==
    LET l == loc[p] IN
    /\ pc[p] = "eb_find_room"
    /\ pc' = [pc EXCEPT ![p] = "eb_update"]
    /\ loc' = [loc EXCEPT ![p].price = rooms[l.booking.room_id].price_per_night]
    /\ UNCHANGED <<hotels, rooms, bookings, tasks, clock, result>>

\* bookings.update_one with the $set computed from the document read
eb_update(p) ==
    LET l == loc[p]
        u == extend_update(l.booking, l.price, l.new_co)
    IN
    /\ pc[p] = "eb_update"
    /\ bookings' = [bookings EXCEPT ![l.id] = apply_extend(@, u)]
    /\ pc' = [pc EXCEPT ![p] = "done"]
    /\ UNCHANGED <<hotels, rooms, tasks, clock, result, loc>>

(***************************************************************************)
(* add_payment, one store operation at a time.  loc[p].booking is the      *)
(* booking document as the request read it.                                *)
(***************************************************************************)
ap_begin(p, key, amount) ==
    /\ pc[p] = "idle"
    /\ pc' = [pc EXCEPT ![p] = "ap_find_booking"]
    /\ loc' = [loc EXCEPT ![p] = [key |-> key, amount |-> amount, id |-> 0,
                                  booking |-> None, err |-> Ok]]
    /\ UNCHANGED <<hotels, rooms, bookings, tasks, clock, result>>

ap_find_booking(p) ==
    LET l == loc[p]
        i == find_booking(bookings, l.key)
    IN
    /\ pc[p] = "ap_find_booking"
    /\ IF i = 0
       THEN /\ pc' = [pc EXCEPT ![p] = "failed"]
            /\ loc' = [loc EXCEPT ![p].err = "Booking not found"]
       ELSE /\ pc' = [pc EXCEPT ![p] = "ap_update"]
            /\ loc' = [loc EXCEPT ![p].id = i, ![p].booking = bookings[i]]
    /\ UNCHANGED <<hotels, rooms, bookings, tasks, clock, result>>

\* bookings.update_one: $push of the payment, $set of the payment_status
\* computed from the document read
ap_update(p) ==
    LET l == loc[p]
        payment == [amount |-> l.amount, status |-> "completed"]
        total_paid == sum_amounts(l.booking.payments) + l.amount
    IN
    /\ pc[p] = "ap_update"
    /\ bookings' = [bookings EXCEPT
                        ![l.id].payments = Append(@, payment),
                        ![l.id].payment_status =
                            payment_status_for(total_paid, l.booking.total_amount)]
    /\ pc' = [pc EXCEPT ![p] = "done"]
    /\ UNCHANGED <<hotels, rooms, tasks, clock, result, loc>>

(***************************************************************************)
(* Specifications                                                          *)
(***************************************************************************)
\* the booking lifecycle: create_booking, update_booking_status and
\* extend_booking, each call atomic
Next ==
    \/ Tick
    \/ \E q \in CreateRequests, ci \in Days, co \in Days :
           /\ create_booking(q[1], q[2], ci, co, q[3])
           /\ Len(bookings') <= MaxBookings
    \/ \E key \in BookingKeys, s \in BookingStatus :
           /\ update_booking_status(key, s, "n")
           /\ Len(tasks') <= MaxTasks
    \/ \E key \in BookingKeys, d \in 1..(MaxDay + 1) : extend_booking(key, d)

Spec == Init /\ [][Next]_vars

\* booking creation and room management
NextCreate ==
    \/ Tick
    \/ \E q \in CreateRequests, ci \in Days, co \in Days :
           /\ create_booking(q[1], q[2], ci, co, q[3])
           /\ Len(bookings') <= MaxBookings
    \/ \E r \in RoomIds, s \in RoomStatus : update_room_status(r, s)

SpecCreate == Init /\ [][NextCreate]_vars

\* the amounts of the booking made within one clock second: every
\* operation that reads or writes a booking's amounts
NextMoney ==
    \/ \E ci \in Days, co \in Days :
           create_booking("h1", 1, ci, co, 2)
    \/ \E key \in BookingKeys, s \in BookingStatus :
           /\ update_booking_status(key, s, None)
           /\ Len(tasks') <= MaxTasks
    \/ \E key \in BookingKeys, d \in 1..(MaxDay + 1) : extend_booking(key, d)
    \/ \E key \in BookingKeys, a \in ChargeAmounts :
           /\ add_room_charge(key, a)
           /\ \A i \in 1..Len(bookings') : Len(bookings'[i].room_charges) <= MaxCharges
    \/ \E key \in BookingKeys, a \in PaymentAmounts :
           /\ add_payment(key, a)
           /\ \A i \in 1..Len(bookings') : Len(bookings'[i].payments) <= MaxPayments

SpecMoney == Init /\ [][NextMoney]_vars

\* two create_booking requests interleaved at their store operations
NextConc ==
    \/ Tick
    \/ \E p \in Procs, q \in CreateRequests, ci \in Days, co \in Days :
           cb_begin(p, q[1], q[2], ci, co, q[3])
    \/ \E p \in Procs : cb_find_room(p)
    \/ \E p \in Procs : cb_find_existing(p)
    \/ \E p \in Procs : cb_insert(p)
    \/ \E p \in Procs : cb_update_room(p)

SpecConc == Init /\ [][NextConc]_vars

\* booking creation and room management over the dates of the lifecycle
NextRooms ==
    \/ Tick
    \/ \E q \in CreateRequests, ci \in Dates, co \in Dates :
           /\ create_booking(q[1], q[2], ci, co, q[3])
           /\ Len(bookings') <= MaxBookings
    \/ \E r \in RoomIds, s \in RoomStatus : update_room_status(r, s)

SpecRooms == Init /\ [][NextRooms]_vars

\* the status transitions of the booking made within one clock second, with
\* and without notes, and the checkout whose task insert fails
NextStatus ==
    \/ \E ci \in Days, co \in Days :
           create_booking("h1", 1, ci, co, 2)
    \/ \E key \in BookingKeys, s \in BookingStatus, n \in Notes :
           /\ update_booking_status(key, s, n)
           /\ Len(tasks') <= MaxTasks
    \/ \E key \in BookingKeys, n \in Notes :
           update_booking_status_task_failure(key, n)

SpecStatus == Init /\ [][NextStatus]_vars

\* the payments of the booking made within one clock second, in every status
\* of the booking
NextPay ==
    \/ \E ci \in Days, co \in Days :
           create_booking("h1", 1, ci, co, 2)
    \/ \E key \in BookingKeys, s \in BookingStatus :
           /\ update_booking_status(key, s, None)
           /\ Len(tasks') <= MaxTasks
    \/ \E key \in BookingKeys, a \in PaymentInputs :
           /\ add_payment(key, a)
           /\ \A i \in 1..Len(bookings') :
                  Len(bookings'[i].payments) <= MaxPaymentList

SpecPay == Init /\ [][NextPay]_vars

\* extensions among the bookings of a room that room management makes
\* available again
NextExtend ==
    \/ Tick
    \/ \E ci \in Days, co \in Days :
           /\ create_booking("h1", 1, ci, co, 2)
           /\ Len(bookings') <= MaxBookings
    \/ \E r \in RoomIds, s \in RoomStatus : update_room_status(r, s)
    \/ \E key \in BookingKeys, d \in 1..(MaxDay + 1) : extend_booking(key, d)

SpecExtend == Init /\ [][NextExtend]_vars

\* the amounts of the booking made within one clock second while the room's
\* price changes
NextPrice ==
    \/ \E ci \in Days, co \in 1..(MaxDay + 1) :
           create_booking("h1", 1, ci, co, 2)
    \/ \E r \in RoomIds, price \in Prices : update_room(r, price, None)
    \/ \E key \in BookingKeys : update_booking_status(key, "checked_in", None)
    \/ \E key \in BookingKeys, d \in 1..(MaxDay + 1) : extend_booking(key, d)

SpecPrice == Init /\ [][NextPrice]_vars

\* create_booking requests for the rooms of the hotels, interleaved at their
\* store operations
NextNumbers ==
    \/ Tick
    \/ \E h \in HotelIds, number \in RoomNumbers, floor \in Floors :
           /\ create_room(h, number, floor, 100, 2)
           /\ Len(rooms') <= MaxRooms
    \/ \E p \in Procs, h \in HotelIds, r \in 1..MaxRooms :
           cb_begin(p, h, r, 1, 2, 2)
    \/ \E p \in Procs : cb_find_room(p)
    \/ \E p \in Procs : cb_find_existing(p)
    \/ \E p \in Procs : cb_insert(p)
    \/ \E p \in Procs : cb_update_room(p)

SpecNumbers == Init /\ [][NextNumbers]_vars

\* the number of charges and of payments in the bookings collection
RECURSIVE StoredCharges(_)
StoredCharges(bs) ==
    IF bs = <<>> THEN 0 ELSE Len(Head(bs).room_charges) + StoredCharges(Tail(bs))

RECURSIVE StoredPayments(_)
StoredPayments(bs) ==
    IF bs = <<>> THEN 0 ELSE Len(Head(bs).payments) + StoredPayments(Tail(bs))

\* the four operations that look a booking up, on the bookings of a room
\* made in different seconds
NextKeys ==
    \/ Tick
    \/ /\ create_booking("h1", 1, 1, 2, 2)
       /\ Len(bookings') <= MaxBookings
    \/ \E key \in BookingKeys, s \in {"checked_in", "cancelled"} :
           update_booking_status(key, s, None)
    \/ \E key \in BookingKeys : extend_booking(key, MaxDay + 1)
    \/ \E key \in BookingKeys, a \in ChargeAmounts :
           /\ add_room_charge(key, a)
           /\ StoredCharges(bookings') <= MaxCharges
    \/ \E key \in BookingKeys, a \in PaymentAmounts :
           /\ add_payment(key, a)
           /\ StoredPayments(bookings') <= MaxPayments

SpecKeys == Init /\ [][NextKeys]_vars

\* extend_booking requests at their store operations, among check-in and
\* room charges
NextCharge ==
    \/ create_booking("h1", 1, 1, 2, 2)
    \/ \E key \in BookingKeys : update_booking_status(key, "checked_in", None)
    \/ \E key \in BookingKeys, a \in ChargeAmounts :
           /\ add_room_charge(key, a)
           /\ \A i \in 1..Len(bookings') : Len(bookings'[i].room_charges) <= MaxCharges
    \/ \E p \in Procs, key \in BookingKeys, d \in 1..(MaxDay + 1) :
           eb_begin(p, key, d)
    \/ \E p \in Procs : eb_find_booking(p)
    \/ \E p \in Procs : eb_find_conflicting(p)
    \/ \E p \in Procs : eb_find_room(p)
    \/ \E p \in Procs : eb_update(p)

SpecCharge == Init /\ [][NextCharge]_vars

\* add_payment requests on the booking, interleaved at their store
\* operations
NextPayRace ==
    \/ create_booking("h1", 1, 1, 2, 2)
    \/ \E p \in Procs, key \in BookingKeys, a \in PaymentInputs \ {0} :
           ap_begin(p, key, a)
    \/ \E p \in Procs : ap_find_booking(p)
    \/ \E p \in Procs : ap_update(p)

SpecPayRace == Init /\ [][NextPayRace]_vars

\* the booking lifecycle together with housekeeping and room management
NextSync ==
    \/ create_booking("h1", 1, 1, 2, 2)
    \/ \E key \in BookingKeys, s \in BookingStatus :
           /\ update_booking_status(key, s, None)
           /\ Len(tasks') <= MaxTasks
    \/ \E r \in RoomIds, t \in {"cleaning", "inspection"} :
           /\ create_housekeeping_task("h1", r, t, "medium")
           /\ Len(tasks') <= MaxTasks
    \/ \E t \in 1..MaxTasks, s \in TaskStatus : update_task_status(t, s)
    \/ \E r \in RoomIds, s \in RoomStatus : update_room_status(r, s)

SpecSync == Init /\ [][NextSync]_vars

\* rooms created, booked and deleted; the deletes take a hotel's room_count
\* down to 1 - MaxDeletes at most
NextDelete ==
    \/ \E number \in RoomNumbers :
           /\ create_room("h1", number, 1, 100, 2)
           /\ Len(rooms') <= MaxRooms
    \/ \E r \in 1..MaxRooms :
           /\ create_booking("h1", r, 1, 2, 2)
           /\ Len(bookings') <= MaxBookings
    \/ \E key \in BookingKeys, s \in BookingStatus :
           /\ update_booking_status(key, s, None)
           /\ Len(tasks') <= MaxTasks
    \/ \E r \in 1..(MaxRooms + 1) :
           /\ delete_room(r)
           /\ \A h \in HotelIds : hotels'[h].room_count >= 1 - MaxDeletes

SpecDelete == Init /\ [][NextDelete]_vars

(***************************************************************************)
(* Properties                                                              *)
(***************************************************************************)
Active(b) == b.booking_status \in {"confirmed", "checked_in"}

\* half-open windows [ci1, co1) and [ci2, co2) overlap
Overlap(ci1, co1, ci2, co2) == ci1 < co2 /\ co1 > ci2

\* C1: no room has two distinct bookings with status confirmed or
\* checked_in whose half-open windows overlap.
C1_NoDoubleBooking ==
    \A i, j \in 1..Len(bookings) :
        (i # j /\ bookings[i].room_id = bookings[j].room_id
             /\ Active(bookings[i]) /\ Active(bookings[j]))
        => ~Overlap(bookings[i].check_in_date, bookings[i].check_out_date,
                    bookings[j].check_in_date, bookings[j].check_out_date)

\* C2: of two interleaved create_booking requests for the same room with
\* overlapping windows, at most one persists a booking.
C2_AtMostOneSucceeds ==
    \A p, q \in Procs :
        (p # q /\ loc[p].id # 0 /\ loc[q].id # 0 /\ loc[p].r = loc[q].r
             /\ Overlap(loc[p].ci, loc[p].co, loc[q].ci, loc[q].co))
        => FALSE

\* C3: for every booking, total_amount = base_amount + tax_amount + the sum
\* of the room_charges amounts.
C3_TotalAmount ==
    \A i \in 1..Len(bookings) :
        bookings[i].total_amount =
            bookings[i].base_amount + bookings[i].tax_amount
                + sum_amounts(bookings[i].room_charges)

\* a booking that was extended, charged and paid for
C3_Witness ==
    \E i \in 1..Len(bookings) :
        /\ bookings[i].check_out_date = MaxDay + 1
        /\ bookings[i].room_charges # <<>>
        /\ bookings[i].payments # <<>>
        /\ bookings[i].booking_status = "checked_out"

\* the transitions of the booking state machine
AllowedTransitions ==
    {<<"pending", "confirmed">>, <<"confirmed", "checked_in">>,
     <<"checked_in", "checked_out">>, <<"pending", "cancelled">>,
     <<"confirmed", "cancelled">>}

\* C4: a booking's status changes only along the state machine
\* pending -> confirmed -> checked_in -> checked_out and
\* {pending, confirmed} -> cancelled.
C4_OnlyStateMachineTransitions ==
    [][\A i \in 1..Len(bookings) :
          bookings'[i].booking_status # bookings[i].booking_status
          => <<bookings[i].booking_status, bookings'[i].booking_status>>
                 \in AllowedTransitions]_vars

\* C5: every persisted booking has check_in_date < check_out_date and a
\* non-negative base_amount.
C5_ValidWindow ==
    \A i \in 1..Len(bookings) :
        /\ bookings[i].check_in_date < bookings[i].check_out_date
        /\ bookings[i].base_amount >= 0

\* the "rooms with conflicting bookings" of get_available_rooms
booked_room_ids(bs, hotel_id, check_in_date, check_out_date) ==
    {bs[i].room_id : i \in
        {j \in 1..Len(bs) :
            /\ bs[j].hotel_id = hotel_id
            /\ bs[j].booking_status \in {"confirmed", "checked_in"}
            /\ bs[j].check_in_date < check_out_date
            /\ bs[j].check_out_date > check_in_date}}

\* C6: for a room found in the hotel, available and large enough,
\* create_booking reports the date conflict exactly when an active booking
\* of the room overlaps the requested half-open window, which is the test
\* of get_available_rooms (all windows with check_in_date < check_out_date).
C6_ConflictIffOverlap ==
    [][\A q \in CreateRequests, ci \in Dates, co \in Dates :
          (/\ create_booking(q[1], q[2], ci, co, q[3])
           /\ room_check(rooms, q[1], q[2], q[3]) = Ok
           /\ ci < co
           /\ \A i \in 1..Len(bookings) :
                  bookings[i].check_in_date < bookings[i].check_out_date)
          => ((result'.err = "Room is already booked for these dates")
                  <=> (q[2] \in booked_room_ids(bookings, q[1], ci, co)))]_vars

\* C7: after a successful create_booking the booking is confirmed with
\* payment pending and its room has status occupied; every room status is
\* a value of RoomStatus.
C7_CreatedBookingRoomOccupied ==
    /\ (result.op = "create_booking" /\ result.err = Ok)
       => /\ bookings[result.id].booking_status = "confirmed"
          /\ bookings[result.id].payment_status = "pending"
          /\ rooms[bookings[result.id].room_id].status = "occupied"
    /\ \A r \in DOMAIN rooms : rooms[r].status \in RoomStatus

CheckKinds == {"NotFound", "InvalidState", "Validation", "Conflict"}

\* C8: a create_booking that fails one of its checks has inserted no
\* booking and leaves rooms and bookings as they are; a room status is
\* written only by a request that has inserted its booking.
C8_NoPartialMutation ==
    [][/\ \A p \in Procs :
             (pc[p] # "failed" /\ pc'[p] = "failed"
                  /\ ErrorKind(loc'[p].err) \in CheckKinds)
             => (loc[p].id = 0 /\ rooms' = rooms /\ bookings' = bookings)
       /\ rooms' # rooms
          => \E p \in Procs :
                 /\ pc[p] = "update_room"
                 /\ loc[p].id \in 1..Len(bookings)
                 /\ bookings[loc[p].id].room_id = loc[p].r
                 /\ \A r \in DOMAIN rooms : rooms'[r] # rooms[r] => r = loc[p].r]_vars

\* a request rejected for the date conflict with the booking another
\* request inserted, and a request that wrote the room status
C8_Witness ==
    \E p, q \in Procs :
        /\ pc[p] = "failed"
        /\ loc[p].err = "Room is already booked for these dates"
        /\ pc[q] = "done"
        /\ rooms[loc[q].r].status = "OCCUPIED"
        /\ Len(bookings) = 1

\* C9: a create_booking for a room that holds a confirmed booking with an
\* overlapping window is rejected with the Conflict error.
C9_OverlapRejectedAsConflict ==
    [][\A q \in CreateRequests, ci \in Days, co \in Days :
          (/\ create_booking(q[1], q[2], ci, co, q[3])
           /\ find_room(rooms, q[1], q[2])
           /\ q[3] <= rooms[q[2]].max_occupancy
           /\ \E i \in 1..Len(bookings) :
                  /\ bookings[i].room_id = q[2]
                  /\ bookings[i].booking_status = "confirmed"
                  /\ Overlap(bookings[i].check_in_date, bookings[i].check_out_date,
                             ci, co))
          => ErrorKind(result'.err) = "Conflict"]_vars

\* C10: create_booking for a room whose status is not available fails
\* with InvalidState and creates no booking, whatever the dates.
C10_NotAvailableRejected ==
    [][\A q \in CreateRequests, ci \in Days, co \in Days :
          (/\ create_booking(q[1], q[2], ci, co, q[3])
           /\ find_room(rooms, q[1], q[2])
           /\ rooms[q[2]].status # "available")
          => (ErrorKind(result'.err) = "InvalidState" /\ bookings' = bookings
                  /\ rooms' = rooms)]_vars

\* a create_booking rejected on a room under maintenance
C10_Witness ==
    /\ result.op = "create_booking"
    /\ result.err = "Room is not available for booking"
    /\ rooms[1].status = "maintenance"

(***************************************************************************)
(* Status transitions of a booking (SpecStatus)                            *)
(***************************************************************************)
\* C11: update_booking_status to checked_in fails unless the booking is
\* confirmed, and to checked_out fails unless it is checked_in; the failure
\* changes neither the booking nor the room and creates no housekeeping task
C11_CheckInOutGuarded ==
    [][\A key \in BookingKeys, n \in Notes :
         LET i == find_booking(bookings, key) IN
         /\ (/\ i # 0
             /\ bookings[i].booking_status # "confirmed"
             /\ update_booking_status(key, "checked_in", n))
            => /\ ErrorKind(result'.err) = "InvalidTransition"
               /\ bookings' = bookings
               /\ rooms' = rooms
               /\ tasks' = tasks
         /\ (/\ i # 0
             /\ bookings[i].booking_status # "checked_in"
             /\ update_booking_status(key, "checked_out", n))
            => /\ ErrorKind(result'.err) = "InvalidTransition"
               /\ bookings' = bookings
               /\ rooms' = rooms
               /\ tasks' = tasks
      ]_vars

\* a check-out refused on a booking that was never checked in
C11_Witness ==
    /\ result.op = "update_booking_status"
    /\ result.err = "Only checked-in bookings can be checked out"
    /\ bookings[result.id].booking_status = "confirmed"
    /\ tasks = <<>>

\* C12: update_booking_status to cancelled fails with InvalidTransition when
\* the booking is checked_in or checked_out, and leaves the booking's status
\* and the room's status as they were
C12_NoCancelAfterCheckIn ==
    [][\A key \in BookingKeys, n \in Notes :
         LET i == find_booking(bookings, key) IN
         (/\ i # 0
          /\ bookings[i].booking_status \in {"checked_in", "checked_out"}
          /\ update_booking_status(key, "cancelled", n))
         => /\ ErrorKind(result'.err) = "InvalidTransition"
            /\ bookings'[i].booking_status = bookings[i].booking_status
            /\ rooms'[bookings[i].room_id].status
                   = rooms[bookings[i].room_id].status
      ]_vars

\* a cancellation refused on a checked-out booking whose room is being cleaned
C12_Witness ==
    /\ result.op = "update_booking_status"
    /\ result.err = "Cannot cancel checked-in or checked-out bookings"
    /\ bookings[result.id].booking_status = "checked_out"
    /\ rooms[bookings[result.id].room_id].status = "cleaning"

\* C13: after a successful transition to checked_out the room is cleaning,
\* exactly one task was added, a pending high-priority cleaning task for the
\* booking's hotel and room, and base, tax and total amount are unchanged
C13_CheckOutEffects ==
    [][\A key \in BookingKeys, n \in Notes :
         LET i == find_booking(bookings, key) IN
         (/\ i # 0
          /\ update_booking_status(key, "checked_out", n)
          /\ result'.err = Ok)
         => /\ bookings'[i].booking_status = "checked_out"
            /\ rooms'[bookings[i].room_id].status = "cleaning"
            /\ Len(tasks') = Len(tasks) + 1
            /\ SubSeq(tasks', 1, Len(tasks)) = tasks
            /\ tasks'[Len(tasks')].hotel_id = bookings[i].hotel_id
            /\ tasks'[Len(tasks')].room_id = bookings[i].room_id
            /\ tasks'[Len(tasks')].task_type = "cleaning"
            /\ tasks'[Len(tasks')].priority = "high"
            /\ tasks'[Len(tasks')].status = "pending"
            /\ bookings'[i].base_amount = bookings[i].base_amount
            /\ bookings'[i].tax_amount = bookings[i].tax_amount
            /\ bookings'[i].total_amount = bookings[i].total_amount
      ]_vars

\* a completed check-out of a booking of one night
C13_Witness ==
    /\ result.op = "update_booking_status"
    /\ result.err = Ok
    /\ bookings[result.id].booking_status = "checked_out"
    /\ bookings[result.id].total_amount = 110
    /\ Len(tasks) = 1

\* C14: when the creation of the housekeeping task fails during the
\* transition to checked_out, the operation still succeeds, the booking ends
\* checked_out and the room cleaning
C14_TaskFailureDoesNotFailCheckout ==
    [][\A key \in BookingKeys, n \in Notes :
         LET i == find_booking(bookings, key) IN
         update_booking_status_task_failure(key, n)
         => /\ result'.err = Ok
            /\ bookings'[i].booking_status = "checked_out"
            /\ rooms'[bookings[i].room_id].status = "cleaning"
      ]_vars

\* C15: after a successful transition to cancelled the room is available and
\* cancellation_reason is the notes argument; after a successful transition
\* to checked_in the room is occupied
C15_CancelAndCheckInEffects ==
    [][\A key \in BookingKeys, n \in Notes :
         LET i == find_booking(bookings, key) IN
         /\ (/\ i # 0
             /\ update_booking_status(key, "cancelled", n)
             /\ result'.err = Ok)
            => /\ bookings'[i].booking_status = "cancelled"
               /\ rooms'[bookings[i].room_id].status = "available"
               /\ bookings'[i].cancellation_reason = n
         /\ (/\ i # 0
             /\ update_booking_status(key, "checked_in", n)
             /\ result'.err = Ok)
            => /\ bookings'[i].booking_status = "checked_in"
               /\ rooms'[bookings[i].room_id].status = "occupied"
      ]_vars

\* a cancellation that stored its reason and released the room
C15_Witness ==
    /\ result.op = "update_booking_status"
    /\ result.err = Ok
    /\ bookings[result.id].booking_status = "cancelled"
    /\ bookings[result.id].cancellation_reason = "n"
    /\ rooms[bookings[result.id].room_id].status = "available"


(***************************************************************************)
(* Charges, payments and extension guards                                  *)
(***************************************************************************)
\* C16: add_room_charge fails whenever the booking is not checked_in and
\* leaves room_charges and total_amount unchanged; on a checked_in booking it
\* appends exactly one charge and raises total_amount by exactly the amount
C16_ChargeOnlyWhenCheckedIn ==
    [][\A key \in BookingKeys, a \in ChargeAmounts :
         LET i == find_booking(bookings, key) IN
         /\ (/\ i # 0
             /\ bookings[i].booking_status # "checked_in"
             /\ add_room_charge(key, a))
            => /\ result'.err # Ok
               /\ bookings'[i].room_charges = bookings[i].room_charges
               /\ bookings'[i].total_amount = bookings[i].total_amount
         /\ (/\ i # 0
             /\ bookings[i].booking_status = "checked_in"
             /\ add_room_charge(key, a))
            => /\ result'.err = Ok
               /\ Len(bookings'[i].room_charges)
                      = Len(bookings[i].room_charges) + 1
               /\ SubSeq(bookings'[i].room_charges, 1,
                         Len(bookings[i].room_charges))
                      = bookings[i].room_charges
               /\ bookings'[i].room_charges[Len(bookings'[i].room_charges)].amount
                      = a
               /\ bookings'[i].total_amount = bookings[i].total_amount + a
      ]_vars

\* a charge refused after check-out on a booking charged during the stay
C16_Witness ==
    /\ result.op = "add_room_charge"
    /\ result.err = "Active booking not found"
    /\ result.id # 0
    /\ bookings[result.id].booking_status = "checked_out"
    /\ Len(bookings[result.id].room_charges) = 1
    /\ bookings[result.id].total_amount
           = bookings[result.id].base_amount + bookings[result.id].tax_amount
             + bookings[result.id].room_charges[1].amount

C18_PaymentTouchesOnlyPayments ==
    [][\A key \in BookingKeys, a \in PaymentInputs :
         LET i == find_booking(bookings, key) IN
         (i # 0 /\ add_payment(key, a))
         => /\ rooms' = rooms
            /\ tasks' = tasks
            /\ Len(bookings') = Len(bookings)
            /\ \A j \in 1..Len(bookings) : j # i => bookings'[j] = bookings[j]
            /\ bookings'[i]
                   = [bookings[i] EXCEPT
                          !.payments = bookings'[i].payments,
                          !.payment_status = bookings'[i].payment_status]
            /\ Len(bookings'[i].payments) = Len(bookings[i].payments) + 1
            /\ SubSeq(bookings'[i].payments, 1, Len(bookings[i].payments))
                   = bookings[i].payments
      ]_vars

\* a second payment on a checked-in booking
C18_Witness ==
    /\ result.op = "add_payment"
    /\ result.err = Ok
    /\ Len(bookings[result.id].payments) = 2
    /\ bookings[result.id].payments[1].amount = 50
    /\ bookings[result.id].booking_status = "checked_in"
    /\ rooms[bookings[result.id].room_id].status = "occupied"

\* C19: extend_booking fails with InvalidState unless the booking is
\* confirmed or checked_in, and with Validation unless new_check_out_date is
\* strictly after the current check_out_date; both failures leave
\* check_out_date and the amounts unchanged
C19_ExtendGuards ==
    [][\A key \in BookingKeys, d \in 1..(MaxDay + 1) :
         LET i == find_booking(bookings, key) IN
         /\ (/\ i # 0
             /\ bookings[i].booking_status \notin {"confirmed", "checked_in"}
             /\ extend_booking(key, d))
            => /\ ErrorKind(result'.err) = "InvalidState"
               /\ bookings'[i].check_out_date = bookings[i].check_out_date
               /\ bookings'[i].base_amount = bookings[i].base_amount
               /\ bookings'[i].tax_amount = bookings[i].tax_amount
               /\ bookings'[i].total_amount = bookings[i].total_amount
         /\ (/\ i # 0
             /\ bookings[i].booking_status \in {"confirmed", "checked_in"}
             /\ d <= bookings[i].check_out_date
             /\ extend_booking(key, d))
            => /\ ErrorKind(result'.err) = "Validation"
               /\ bookings'[i].check_out_date = bookings[i].check_out_date
               /\ bookings'[i].base_amount = bookings[i].base_amount
               /\ bookings'[i].tax_amount = bookings[i].tax_amount
               /\ bookings'[i].total_amount = bookings[i].total_amount
      ]_vars

\* an extension to the current check-out date refused on a checked-in booking
C19_Witness ==
    /\ result.op = "extend_booking"
    /\ result.err = "New check-out date must be after current check-out date"
    /\ bookings[result.id].booking_status = "checked_in"
    /\ bookings[result.id].check_in_date < bookings[result.id].check_out_date

\* an extension refused on a cancelled booking
C19_WitnessState ==
    /\ result.op = "extend_booking"
    /\ result.err = "Can only extend confirmed or checked-in bookings"
    /\ bookings[result.id].booking_status = "cancelled"


(***************************************************************************)
(* Extension against the other bookings of the room (SpecExtend)           *)
(***************************************************************************)
\* the condition under which an extension of booking i to new_co is to be
\* refused as a conflict
ExtensionConflict(bs, i, new_co) ==
    \E j \in 1..Len(bs) :
        /\ j # i
        /\ bs[j].room_id = bs[i].room_id
        /\ Active(bs[j])
        /\ bs[j].check_in_date < new_co
        /\ bs[j].check_out_date > bs[i].check_out_date

\* C20: extend_booking fails with Conflict exactly when another active
\* booking on the same room has check_in_date < new_check_out_date and
\* check_out_date > the current check_out_date; a booking never conflicts
\* with itself; a successful extension never makes the window overlap an
\* active booking on the room that it did not overlap before
C20_ExtendConflict ==
    [][\A key \in BookingKeys, d \in 1..(MaxDay + 1) :
         LET i == find_booking(bookings, key) IN
         (i # 0 /\ extend_booking(key, d))
         => /\ ErrorKind(result'.err) = "Conflict"
                   => ExtensionConflict(bookings, i, d)
            /\ (/\ Active(bookings[i])
                /\ d > bookings[i].check_out_date
                /\ ExtensionConflict(bookings, i, d))
                   => ErrorKind(result'.err) = "Conflict"
            /\ result'.err = Ok
                   => \A j \in 1..Len(bookings) :
                          (/\ j # i
                           /\ bookings[j].room_id = bookings[i].room_id
                           /\ Active(bookings[j])
                           /\ Overlap(bookings'[i].check_in_date,
                                      bookings'[i].check_out_date,
                                      bookings[j].check_in_date,
                                      bookings[j].check_out_date))
                          => Overlap(bookings[i].check_in_date,
                                     bookings[i].check_out_date,
                                     bookings[j].check_in_date,
                                     bookings[j].check_out_date)
      ]_vars



(***************************************************************************)
(* Amounts of create_booking and extend_booking (SpecPrice)                *)
(***************************************************************************)
\* C21: a successful extend_booking by n = new_check_out_date - current
\* check_out_date nights sets check_out_date to the new date, adds
\* price_per_night * n to base_amount, 10% of that to tax_amount and both to
\* total_amount, at the room's current price, and leaves room_charges,
\* payments, booking_status and the room unchanged
C21_ExtendAmounts ==
    [][\A key \in BookingKeys, d \in 1..(MaxDay + 1) :
         LET i == find_booking(bookings, key) IN
         (i # 0 /\ extend_booking(key, d) /\ result'.err = Ok)
         => LET b == bookings[i]
                n == d - b.check_out_date
                added == rooms[b.room_id].price_per_night * n
            IN /\ bookings'[i].check_out_date = d
               /\ bookings'[i].base_amount = b.base_amount + added
               /\ 10 * (bookings'[i].tax_amount - b.tax_amount) = added
               /\ bookings'[i].total_amount - b.total_amount
                      = added + (bookings'[i].tax_amount - b.tax_amount)
               /\ bookings'[i].room_charges = b.room_charges
               /\ bookings'[i].payments = b.payments
               /\ bookings'[i].booking_status = b.booking_status
               /\ rooms' = rooms
      ]_vars

\* a checked-in booking of one night at 100 extended by one night at 200
C21_Witness ==
    /\ result.op = "extend_booking"
    /\ result.err = Ok
    /\ bookings[result.id].booking_status = "checked_in"
    /\ bookings[result.id].check_out_date - bookings[result.id].check_in_date = 2
    /\ bookings[result.id].base_amount = 300
    /\ bookings[result.id].tax_amount = 30
    /\ bookings[result.id].total_amount = 330

\* C22: a successful create_booking for a room of price p and
\* nights = check_out_date - check_in_date stores base_amount = p * nights,
\* tax_amount = 10% of base_amount and total_amount = base_amount + tax_amount
C22_CreateAmounts ==
    [][\A ci \in Days, co \in 1..(MaxDay + 1) :
         (create_booking("h1", 1, ci, co, 2) /\ result'.err = Ok)
         => LET b == bookings'[Len(bookings')]
                p == rooms[1].price_per_night
            IN /\ Len(bookings') = Len(bookings) + 1
               /\ b.base_amount = p * (co - ci)
               /\ 10 * b.tax_amount = b.base_amount
               /\ b.total_amount = b.base_amount + b.tax_amount
      ]_vars

\* two nights at 100: 200, 20, 220
C22_Witness ==
    /\ result.op = "create_booking"
    /\ result.err = Ok
    /\ rooms[1].price_per_night = 100
    /\ bookings[result.id].check_out_date - bookings[result.id].check_in_date = 2
    /\ bookings[result.id].base_amount = 200
    /\ bookings[result.id].tax_amount = 20
    /\ bookings[result.id].total_amount = 220



(***************************************************************************)
(* Booking numbers (SpecNumbers)                                           *)
(***************************************************************************)
UniqueBookingNumbers(bs) ==
    \A i, j \in 1..Len(bs) : i # j => bs[i].booking_number # bs[j].booking_number

\* C23: no two persisted bookings share a booking_number, also when two
\* create_booking calls for different rooms run within the same clock
\* second: the insert of the second is rejected and no room's status changes
C23_BookingNumberUnique ==
    [][/\ UniqueBookingNumbers(bookings')
       /\ \A p \in Procs :
              (/\ pc[p] = "insert"
               /\ pc'[p] = "failed"
               /\ \E i \in 1..Len(bookings) :
                      bookings[i].booking_number = loc[p].number)
              => /\ rooms' = rooms
                 /\ bookings' = bookings
                 /\ loc'[p].err = "E11000 duplicate key"
      ]_vars

\* a request for the second room rejected for the number of the booking of
\* the first room made in the same second
C23_Witness ==
    \E p, q \in Procs :
        /\ pc[p] = "failed"
        /\ loc[p].err = "E11000 duplicate key"
        /\ loc[p].r = 2
        /\ rooms[2].status = "available"
        /\ pc[q] = "done"
        /\ loc[q].r = 1
        /\ loc[q].number = loc[p].number
        /\ Len(bookings) = 1



(***************************************************************************)
(* Lookup by identifier or booking number (SpecKeys)                       *)
(***************************************************************************)
\* the errors that report an absent booking; add_room_charge has one
\* message for an absent booking and for one that is not checked in
NotFoundError(msg) ==
    ErrorKind(msg) = "NotFound" \/ msg = "Active booking not found"

IdKey(i) == [kind |-> "oid", v |-> i]
NumberKey(b) == [kind |-> "bk", v |-> b.booking_number]

\* every key's string resolves as the key does, and each booking is found
\* under both of its strings
KeyStringsResolve ==
    /\ \A key \in BookingKeys :
           find_booking(bookings, key)
               = find_booking_string(bookings, KeyString(key))
    /\ \A i \in 1..Len(bookings) :
           /\ ~is_object_id(BookingNumberString(bookings[i].booking_number))
           /\ find_booking_string(bookings, ObjectIdString(i)) = i
           /\ find_booking_string(
                  bookings, BookingNumberString(bookings[i].booking_number)) = i

\* C24: update_booking_status, add_payment, add_room_charge and
\* extend_booking resolve booking_id to the same booking whether it is the
\* identifier or the booking_number, fail with NotFound and change nothing
\* when no booking matches, and a booking number is never taken for an
\* identifier
C24_DualKeyLookup ==
    /\ []KeyStringsResolve
    /\ [][/\ \A i \in 1..Len(bookings) :
                 /\ result'.op = "update_booking_status"
                    => \A s \in BookingStatus :
                           update_booking_status(IdKey(i), s, None)
                               <=> update_booking_status(NumberKey(bookings[i]), s, None)
                 /\ result'.op = "add_payment"
                    => \A a \in PaymentAmounts :
                           add_payment(IdKey(i), a)
                               <=> add_payment(NumberKey(bookings[i]), a)
                 /\ result'.op = "add_room_charge"
                    => \A a \in ChargeAmounts :
                           add_room_charge(IdKey(i), a)
                               <=> add_room_charge(NumberKey(bookings[i]), a)
                 /\ result'.op = "extend_booking"
                    => (extend_booking(IdKey(i), MaxDay + 1)
                            <=> extend_booking(NumberKey(bookings[i]), MaxDay + 1))
          /\ \A key \in BookingKeys :
                 (/\ find_booking(bookings, key) = 0
                  /\ \/ /\ result'.op = "update_booking_status"
                        /\ \E s \in BookingStatus :
                               update_booking_status(key, s, None)
                     \/ /\ result'.op = "add_payment"
                        /\ \E a \in PaymentAmounts : add_payment(key, a)
                     \/ /\ result'.op = "add_room_charge"
                        /\ \E a \in ChargeAmounts : add_room_charge(key, a)
                     \/ /\ result'.op = "extend_booking"
                        /\ extend_booking(key, MaxDay + 1))
                 => /\ NotFoundError(result'.err)
                    /\ bookings' = bookings
                    /\ rooms' = rooms
                    /\ tasks' = tasks
         ]_vars

\* the second booking of the room, paid through its booking number
C24_Witness ==
    /\ Len(bookings) = 2
    /\ result.op = "add_payment"
    /\ result.err = Ok
    /\ result.id = 2
    /\ bookings[2].payments # <<>>
    /\ bookings[1].booking_number # bookings[2].booking_number
    /\ find_booking_string(bookings, BookingNumberString(bookings[2].booking_number)) = 2
    /\ find_booking_string(bookings, ObjectIdString(2)) = 2



(***************************************************************************)
(* Interleaved requests on one booking                                     *)
(***************************************************************************)
\* C25: when add_room_charge and extend_booking on the same checked_in
\* booking interleave at their store operations, total_amount still equals
\* base_amount + tax_amount + the sum of the room charges once no extension
\* is in flight
C25_TotalAmountSurvivesInterleaving ==
    (\A p \in Procs : pc[p] \in {"idle", "done", "failed"})
    => \A i \in 1..Len(bookings) :
           bookings[i].total_amount
               = bookings[i].base_amount + bookings[i].tax_amount
                 + sum_amounts(bookings[i].room_charges)


\* C26: when two add_payment calls on the same booking interleave, both
\* payments are appended and the final payment_status reflects the sum of
\* all stored payments: amounts that together reach total_amount leave the
\* booking paid
C26_InterleavedPayments ==
    (\A p \in Procs : pc[p] \in {"idle", "done", "failed"})
    => \A i \in 1..Len(bookings) :
           LET paid == sum_amounts(bookings[i].payments) IN
           /\ Len(bookings[i].payments)
                  = Cardinality({p \in Procs : pc[p] = "done" /\ loc[p].id = i})
           /\ paid >= bookings[i].total_amount
                  => bookings[i].payment_status = "paid"
           /\ (paid > 0 /\ paid < bookings[i].total_amount)
                  => bookings[i].payment_status = "partial"


\* C27: in every reachable state a booking whose payment_status is paid has
\* payments that sum to at least its total_amount, also after a later
\* add_room_charge or extend_booking has raised total_amount
C27_PaidCoversTotal ==
    \A i \in 1..Len(bookings) :
        bookings[i].payment_status = "paid"
        => sum_amounts(bookings[i].payments) >= bookings[i].total_amount


\* C28: a room that has a booking in status checked_in has room status
\* occupied, in every state reached by the booking operations, housekeeping
\* task creation and completion, and update_room_status
C28_CheckedInRoomOccupied ==
    \A i \in 1..Len(bookings) :
        bookings[i].booking_status = "checked_in"
        => rooms[bookings[i].room_id].status = "occupied"


\* C29: update_room_status never moves a room from occupied to available
\* and sets occupied only on an available room; a room as create_booking
\* left it is refused the status available too, so update_room_status does
\* not make it available while that booking is active
C29_RoomStatusGuard ==
    [][\A r \in RoomIds, s \in RoomStatus :
         update_room_status(r, s)
         => /\ ~(rooms[r].status = "occupied" /\ rooms'[r].status = "available")
            /\ (rooms'[r].status = "occupied" /\ rooms[r].status # "occupied")
                   => rooms[r].status = "available"
            /\ (/\ s = "available"
                /\ result.op = "create_booking"
                /\ result.err = Ok
                /\ bookings[result.id].room_id = r
                /\ bookings[result.id].booking_status = "confirmed")
               => (/\ result'.err = "Cannot set occupied room to available directly"
                   /\ rooms' = rooms)]_vars


\* C30: delete_room for a room that has a booking whose booking status is
\* confirmed or checked_in fails with "Cannot delete room with active
\* bookings" and leaves the room and the hotel's room_count unchanged
C30_DeleteRoomWithActiveBooking ==
    [][\A r \in DOMAIN rooms :
         (/\ delete_room(r)
          /\ \E i \in 1..Len(bookings) :
                 /\ bookings[i].room_id = r
                 /\ bookings[i].booking_status \in {"confirmed", "checked_in"})
         => (/\ result'.err = "Cannot delete room with active bookings"
             /\ rooms' = rooms
             /\ hotels' = hotels)]_vars

====
